---- MODULE Spec2Model ----
(***************************************************************************)
(* The ETL pipeline of import_data.py: four import phases that load the    *)
(* remote drug, monotherapy, combination and target feeds into the tables  *)
(* drugs, side_effects, drug_side_effects and drug_targets.                *)
(*                                                                         *)
(* Strings that the code normalises are sequences of one-character         *)
(* strings, so that str.replace("'", "") and str.strip() are computed.     *)
(* A table is a bag of rows: to_sql(if_exists='append') only adds rows.    *)
(***************************************************************************)
EXTENDS Naturals, Integers, Sequences, FiniteSets, Bags, TLC

VARIABLES
    remote,             \* the rows the four remote feeds serve
    drugs,              \* table drugs(stitch_id, common_name)
    side_effects,       \* table side_effects(se_code, se_name)
    drug_side_effects,  \* table drug_side_effects(drug_id, se_code, is_combo)
    drug_targets,       \* table drug_targets(drug_id, protein_id)
    pc,                 \* 0: no pipeline process is running; k: __main__ is about to call phase k
    status,             \* how the current or most recent __main__ process stands
    last,               \* the most recent phase invocation: phase, outcome, what its fetch met
    completed,          \* some __main__ process has run all four phases without a failure
    p2Partial           \* some Phase 2 committed its catalog without the drug links

vars == <<remote, drugs, side_effects, drug_side_effects, drug_targets,
          pc, status, last, completed, p2Partial>>

tables == <<drugs, side_effects, drug_side_effects, drug_targets>>

-----------------------------------------------------------------------------
(* Bounds of the model *)

\* total number of rows the four remote feeds hold
MaxRows == 2
\* Phases 3 and 4 are invoked only while no link row is stored this often
MaxCopies == 2
\* longest raw identifier of the feeds that spell one drug in every way
MaxLen == 3
\* total number of rows of the feeds that serve every table of the aggregation
MaxJoinRows == 3

-----------------------------------------------------------------------------
(* Strings and normalisation *)

Quote == "'"
Space == " "

RECURSIVE StrReplaceQuote(_)
\* s.replace("'", "")
StrReplaceQuote(s) ==
    IF s = <<>> THEN <<>>
    ELSE IF Head(s) = Quote THEN StrReplaceQuote(Tail(s))
         ELSE <<Head(s)>> \o StrReplaceQuote(Tail(s))

RECURSIVE LStrip(_)
LStrip(s) == IF s # <<>> /\ Head(s) = Space THEN LStrip(Tail(s)) ELSE s

RECURSIVE RStrip(_)
RStrip(s) ==
    IF s # <<>> /\ s[Len(s)] = Space THEN RStrip(SubSeq(s, 1, Len(s) - 1)) ELSE s

\* s.strip()
StrStrip(s) == RStrip(LStrip(s))

\* .astype(str).str.replace("'", "").str.strip() on a freshly fetched column
NormalizeFresh(s) == StrStrip(StrReplaceQuote(s))

\* str(x).replace("'", "").strip() on the stored stitch_id values (Phase 2)
NormalizeStoredList(s) == StrStrip(StrReplaceQuote(s))

\* a normalisation of the stored values that leaves the quotes in
NormalizeStoredSeries_StripOnly(s) == StrStrip(s)

\* ['stitch_id'].str.replace("'", "").str.strip() on the stored values (Phases 3, 4)
NormalizeStoredSeries(s) == StrStrip(StrReplaceQuote(s))

-----------------------------------------------------------------------------
(* Data frames: sequences of rows, a row is a tuple of column values *)

RECURSIVE SeqToBag(_)
SeqToBag(rows) ==
    IF rows = <<>> THEN EmptyBag
    ELSE SetToBag({Head(rows)}) (+) SeqToBag(Tail(rows))

\* rows[i] for the i whose key, keys[i], is at no smaller index (keep='first')
KeepFirst(rows, keys) ==
    LET keep(i) == \A j \in 1..(i - 1) : keys[j] # keys[i]
        RECURSIVE From(_)
        From(i) == IF i > Len(rows) THEN <<>>
                   ELSE IF keep(i) THEN <<rows[i]>> \o From(i + 1)
                        ELSE From(i + 1)
    IN  From(1)

\* a de-duplication on a column that keeps every row
DropDuplicatesSubset_KeepAll(rows, c) == rows

\* DataFrame.drop_duplicates(subset=[column c], keep='first')
DropDuplicatesSubset(rows, c) == KeepFirst(rows, [i \in DOMAIN rows |-> rows[i][c]])

\* a de-duplication that keeps every row
DropDuplicates_KeepAll(rows) == rows

\* DataFrame.drop_duplicates()
DropDuplicates(rows) == KeepFirst(rows, rows)

-----------------------------------------------------------------------------
(* The remote feeds *)

\* identifiers as the drug feed spells them
DrugFeedIds == {<<"a">>, <<"a", Quote>>, <<Space, "b">>}
DrugNames == {"x"}
\* identifiers as the monotherapy, combination and target feeds spell them
LinkFeedIds == {<<Quote, "a", Space>>, <<"b">>}
SeCodes == {"s1", "s2"}
\* the names the monotherapy feed and the combination feed give a code
MonoSeNames == {"h", "n"}
ComboSeNames == {"h"}
ProteinIds == {"p1"}

NamesRows == DrugFeedIds \X DrugNames
MonoRows == LinkFeedIds \X SeCodes \X MonoSeNames
ComboRows == LinkFeedIds \X LinkFeedIds \X SeCodes \X ComboSeNames
TargetsRows == LinkFeedIds \X ProteinIds

\* how many rows each of the four feeds holds
Splits == {n \in [1..4 -> 0..MaxRows] : n[1] + n[2] + n[3] + n[4] <= MaxRows}

Remotes ==
    UNION {[names : [1..n[1] -> NamesRows], mono : [1..n[2] -> MonoRows],
            combo : [1..n[3] -> ComboRows], targets : [1..n[4] -> TargetsRows]]
           : n \in Splits}

\* what a fetch can meet: the connection fails, the server answers with a
\* status outside 2xx, the body is no gzip container, the archive holds no
\* member or no data file, or the data file has one column less than,
\* exactly, or one column more than the phase reads
FeedResponses == {"exact", "unreachable", "non2xx"}
ArchiveResponses ==
    {"exact", "unreachable", "non2xx", "badgz", "empty", "nomember", "short", "wide"}
\* the body of an answer with a status outside 2xx
Bodies == {"html", "archive"}

\* what one invocation meets: a fetch response, the body of an answer with
\* a status outside 2xx, and which of the phase's inserts the store rejects
\* (0: none; the store answers every query, and rejects an insert only in
\* an invocation whose fetch met nothing unusual)
FeedInputs(nstmt) ==
    {i \in [resp : FeedResponses, body : {"html"}, fail : 0..nstmt] :
        i.fail = 0 \/ i.resp = "exact"}
ArchiveInputs(nstmt) ==
    {i \in [resp : ArchiveResponses, body : Bodies, fail : 0..nstmt] :
        /\ i.fail = 0 \/ i.resp = "exact"
        /\ i.body = "html" \/ i.resp = "non2xx"}

Filler == "x"

\* the data file of an archive, with n columns where the feed has Len(row)
Shape(rows, n) ==
    [i \in DOMAIN rows |->
        [c \in 1..n |-> IF c <= Len(rows[i]) THEN rows[i][c] ELSE Filler]]

-----------------------------------------------------------------------------
(* The store *)

\* an emptiness check that answers "empty" for a populated table
is_table_empty_AlwaysEmpty(table) == TRUE

is_table_empty(table) == BagCardinality(table) = 0

\* an insert that replaces the table: DataFrame.to_sql(if_exists='replace')
to_sql_Replace(table, rows) == SeqToBag(rows)

\* DataFrame.to_sql(table, if_exists='append'): one transaction
to_sql(table, rows) == table (+) SeqToBag(rows)

\* the value the store gives is_combo when an insert leaves the column out
IsComboDefault == FALSE

-----------------------------------------------------------------------------
(* The archive fetcher *)

\* the members of the archive a response carries
Archive(resp, body, rows, expected) ==
    LET meta == [isfile |-> TRUE, meta |-> TRUE, ncols |-> 1, rows |-> <<>>]
        dir  == [isfile |-> FALSE, meta |-> FALSE, ncols |-> 0, rows |-> <<>>]
        data(n) == [isfile |-> TRUE, meta |-> FALSE, ncols |-> n,
                    rows |-> Shape(rows, n)]
    IN  CASE resp = "empty"    -> <<>>
          [] resp = "nomember" -> <<dir, meta>>
          [] resp = "short"    -> <<meta, data(expected - 1)>>
          [] resp = "wide"     -> <<dir, data(expected + 1)>>
          [] OTHER             -> <<data(expected)>>

\* requests.get raises, or tarfile.open raises on a body that is no gzip
\* container; the status of the response is not looked at
FetchRaises(resp, body) ==
    \/ resp = "unreachable"
    \/ resp = "badgz"
    \/ resp = "non2xx" /\ body = "html"

\* a member filter that lets every member through
ValidMember_Any(m) == TRUE

ValidMember(m) == m.isfile /\ ~m.meta

download_and_extract_gz(resp, body, rows, expected) ==
    IF FetchRaises(resp, body)
    THEN [kind |-> "raise", ncols |-> 0, rows |-> <<>>]
    ELSE LET members == SelectSeq(Archive(resp, body, rows, expected), ValidMember)
         IN  IF members = <<>>
             THEN [kind |-> "none", ncols |-> 0, rows |-> <<>>]
             ELSE [kind |-> "df", ncols |-> members[1].ncols, rows |-> members[1].rows]

-----------------------------------------------------------------------------------------------------------------------------------------------------
(* The phases.  Each takes what its fetch meets (resp, body) and which of   *)
(* its inserts the store rejects (fail), and gives the tables it leaves,   *)
(* its outcome and what its fetch met.                                     *)
(* Outcomes: "skipped", "ok", "caught" (an exception reached the phase's   *)
(* except clause), "raised" (an exception left the phase).                 *)

Outcome(o, f, d, se, dse, dt) ==
    [outcome |-> o, fetch |-> f, drugs |-> d, side_effects |-> se,
     drug_side_effects |-> dse, drug_targets |-> dt]

\* the phase ends and has inserted nothing
Nothing(o, f) ==
    Outcome(o, f, drugs, side_effects, drug_side_effects, drug_targets)

\* the stored identifiers as Phase 2 compares them
ExistingIds == {NormalizeStoredList(d.stitch_id) : d \in BagToSet(drugs)}

\* the stored identifiers as Phases 3 and 4 compare them
ExistingDrugs == {NormalizeStoredSeries(d.stitch_id) : d \in BagToSet(drugs)}

ExistingSe == {e.se_code : e \in BagToSet(side_effects)}

\* df.columns[0 .. n-1] can be read: the fetcher gave a frame with n columns
HasColumns(df, n) == df.kind = "df" /\ df.ncols >= n

\* a column assignment that takes any number of names
ColumnsAssignable_Unchecked(ncols, n) == TRUE

\* df.columns = [a list of n names]
ColumnsAssignable(ncols, n) == ncols = n

\* the catalog extension without the filter on the stored codes
NewSeToAdd_Unfiltered(new_se, existing_se) == new_se

\* new_se[~new_se['se_code'].isin(existing_se)]
NewSeToAdd(new_se, existing_se) ==
    LET Absent(e) == e.se_code \notin existing_se IN SelectSeq(new_se, Absent)

\* df[df[column c].isin(known)]
IsIn(rows, c, known) == LET Known(r) == r[c] \in known IN SelectSeq(rows, Known)

\* column c of every row normalised
NormalizeColumn(rows, c) ==
    [i \in DOMAIN rows |-> [rows[i] EXCEPT ![c] = NormalizeFresh(@)]]

\* a catalog that holds no code of the frame
SeCatalog_Empty(rows, cc, cn) == <<>>

\* the (code, name) columns cc, cn of a frame, one row per code
SeCatalog(rows, cc, cn) ==
    LET cat == DropDuplicatesSubset(rows, cc)
    IN  [i \in DOMAIN cat |-> [se_code |-> cat[i][cc], se_name |-> cat[i][cn]]]

Phase1(resp, fail) ==
    IF ~is_table_empty(drugs) THEN Nothing("skipped", "none")
    ELSE IF resp # "exact" THEN Nothing("raised", resp)
    ELSE LET df_names == DropDuplicatesSubset(remote.names, 1)
             rows == [i \in DOMAIN df_names |->
                         [stitch_id |-> df_names[i][1], common_name |-> df_names[i][2]]]
         IN  IF fail = 1 THEN Nothing("raised", resp)
             ELSE Outcome("ok", resp, to_sql(drugs, rows), side_effects,
                          drug_side_effects, drug_targets)

Phase2(resp, body, fail) ==
    IF ~is_table_empty(side_effects) THEN Nothing("skipped", "none")
    ELSE LET df_mono == download_and_extract_gz(resp, body, remote.mono, 3) IN
    IF df_mono.kind = "raise" THEN Nothing("raised", resp)
    ELSE IF ~HasColumns(df_mono, 3) THEN Nothing("caught", resp)
    ELSE LET se_catalog == SeCatalog(df_mono.rows, 2, 3)
             norm == NormalizeColumn(df_mono.rows, 1)
             drug_se == [i \in DOMAIN norm |->
                            [drug_id |-> norm[i][1], se_code |-> norm[i][2],
                             is_combo |-> IsComboDefault]]
             Known(r) == r.drug_id \in ExistingIds
             drug_se_filtered == SelectSeq(drug_se, Known)
             catalog == to_sql(side_effects, se_catalog)
         IN  IF fail = 1 THEN Nothing("caught", resp)
             ELSE IF fail = 2 /\ Len(drug_se_filtered) > 0
             THEN Outcome("caught", resp, drugs, catalog, drug_side_effects, drug_targets)
             ELSE Outcome("ok", resp, drugs, catalog,
                          IF Len(drug_se_filtered) > 0
                          THEN to_sql(drug_side_effects, drug_se_filtered)
                          ELSE drug_side_effects,
                          drug_targets)

Phase3(resp, body, fail) ==
    LET df_combo == download_and_extract_gz(resp, body, remote.combo, 4) IN
    IF ~HasColumns(df_combo, 4) THEN Nothing("raised", resp)
    ELSE LET norm == NormalizeColumn(NormalizeColumn(df_combo.rows, 1), 2)
             df_filtered == IsIn(IsIn(norm, 1, ExistingDrugs), 2, ExistingDrugs)
             new_se == SeCatalog(df_filtered, 3, 4)
             new_se_to_add == NewSeToAdd(new_se, ExistingSe)
             catalog == IF new_se_to_add # <<>> THEN to_sql(side_effects, new_se_to_add)
                        ELSE side_effects
             pairs == DropDuplicates(
                          [i \in DOMAIN df_filtered |-> <<df_filtered[i][1], df_filtered[i][3]>>]
                          \o [i \in DOMAIN df_filtered |-> <<df_filtered[i][2], df_filtered[i][3]>>])
             combo_rows == [i \in DOMAIN pairs |->
                               [drug_id |-> pairs[i][1], se_code |-> pairs[i][2],
                                is_combo |-> TRUE]]
         IN  IF fail = 1 /\ new_se_to_add # <<>> THEN Nothing("raised", resp)
             ELSE IF fail = 2
             THEN Outcome("raised", resp, drugs, catalog, drug_side_effects, drug_targets)
             ELSE Outcome("ok", resp, drugs, catalog,
                          to_sql(drug_side_effects, combo_rows), drug_targets)

Phase4(resp, body, fail) ==
    LET df_targets == download_and_extract_gz(resp, body, remote.targets, 2) IN
    IF ~HasColumns(df_targets, 2) THEN Nothing("raised", resp)
    ELSE LET norm == NormalizeColumn(df_targets.rows, 1)
             df_filtered == DropDuplicates(IsIn(norm, 1, ExistingDrugs))
             rows == [i \in DOMAIN df_filtered |->
                         [drug_id |-> df_filtered[i][1], protein_id |-> df_filtered[i][2]]]
         IN  IF ~ColumnsAssignable(df_targets.ncols, 2) \/ fail = 1
             THEN Nothing("raised", resp)
             ELSE Outcome("ok", resp, drugs, side_effects, drug_side_effects,
                          to_sql(drug_targets, rows))

-----------------------------------------------------------------------------
(* The orchestration *)

\* every phase that returns counts as met by no failure
Clean_Any(r) == TRUE

\* the phase met no failure: it inserted or skipped, on a feed as expected
Clean(r) == r.outcome \in {"ok", "skipped"} /\ r.fetch \in {"none", "exact"}

\* an orchestrator that goes on to the next phase after an exception
Return_KeepGoing(k, r) ==
    /\ last' = [phase |-> k, outcome |-> r.outcome, fetch |-> r.fetch]
    /\ IF pc # k THEN UNCHANGED <<pc, status, completed>>
       ELSE IF k = 4
       THEN /\ pc' = 0
            /\ status' = IF status = "running" /\ Clean(r) THEN "done" ELSE "done_failed"
            /\ completed' = (completed \/ status' = "done")
       ELSE /\ pc' = k + 1
            /\ status' = IF Clean(r) THEN status ELSE "failing"
            /\ UNCHANGED completed

\* phase k returns to its caller, or the exception that left it ends the
\* process: __main__ calls the four phases in a row, with no try around them
Return(k, r) ==
    /\ last' = [phase |-> k, outcome |-> r.outcome, fetch |-> r.fetch]
    /\ IF pc # k THEN UNCHANGED <<pc, status, completed>>
       ELSE IF r.outcome = "raised"
       THEN pc' = 0 /\ status' = "crashed" /\ UNCHANGED completed
       ELSE IF k = 4
       THEN /\ pc' = 0
            /\ status' = IF status = "running" /\ Clean(r) THEN "done" ELSE "done_failed"
            /\ completed' = (completed \/ status' = "done")
       ELSE /\ pc' = k + 1
            /\ status' = IF Clean(r) THEN status ELSE "failing"
            /\ UNCHANGED completed

Apply(k, r) ==
    /\ drugs' = r.drugs
    /\ side_effects' = r.side_effects
    /\ drug_side_effects' = r.drug_side_effects
    /\ drug_targets' = r.drug_targets
    /\ Return(k, r)
    /\ UNCHANGED remote

Copies(table) == {table[r] : r \in DOMAIN table}

import_phase_1_names ==
    /\ \E i \in FeedInputs(1) : Apply(1, Phase1(i.resp, i.fail))
    /\ UNCHANGED p2Partial

import_phase_2_mono ==
    /\ \E i \in ArchiveInputs(2) :
          LET r == Phase2(i.resp, i.body, i.fail) IN
          /\ Apply(2, r)
          /\ p2Partial' = (p2Partial \/ (/\ r.side_effects # side_effects
                                         /\ (r.outcome = "caught" \/ is_table_empty(drugs))))

import_phase_3_combo ==
    /\ \A n \in Copies(drug_side_effects) : n < MaxCopies
    /\ \E i \in ArchiveInputs(2) : Apply(3, Phase3(i.resp, i.body, i.fail))
    /\ UNCHANGED p2Partial

import_phase_4_targets ==
    /\ \A n \in Copies(drug_targets) : n < MaxCopies
    /\ \E i \in ArchiveInputs(1) : Apply(4, Phase4(i.resp, i.body, i.fail))
    /\ UNCHANGED p2Partial

NoCall == [phase |-> 0, outcome |-> "none", fetch |-> "none"]

\* python import_data.py: a new process, which has called no phase yet
Main ==
    /\ pc = 0
    /\ pc' = 1
    /\ status' = "running"
    /\ last' = NoCall
    /\ UNCHANGED <<remote, tables, completed, p2Partial>>

Init ==
    /\ remote \in Remotes
    /\ drugs = EmptyBag
    /\ side_effects = EmptyBag
    /\ drug_side_effects = EmptyBag
    /\ drug_targets = EmptyBag
    /\ pc = 0
    /\ status = "none"
    /\ last = NoCall
    /\ completed = FALSE
    /\ p2Partial = FALSE

\* the pipeline: python import_data.py, any number of times, each process
\* calling the four phases in a row
Next ==
    \/ Main
    \/ pc = 1 /\ import_phase_1_names
    \/ pc = 2 /\ import_phase_2_mono
    \/ pc = 3 /\ import_phase_3_combo
    \/ pc = 4 /\ import_phase_4_targets

Spec == Init /\ [][Next]_vars

\* the phases invoked one by one, in any order, outside the pipeline
NextAny ==
    \/ pc = 0 /\ import_phase_1_names
    \/ pc = 0 /\ import_phase_2_mono
    \/ pc = 0 /\ import_phase_3_combo
    \/ pc = 0 /\ import_phase_4_targets

SpecAny == Init /\ [][NextAny]_vars

\* the characters of a raw identifier
Alphabet == {"a", Quote, Space}

\* every spelling of an identifier, up to MaxLen characters
RawStrings == UNION {[1..n -> Alphabet] : n \in 1..MaxLen}

\* feeds in which the drug feed and one of the monotherapy, combination and
\* target feeds hold one row, both with the same raw identifier
NormalizeRemotes ==
    {[names   |-> <<<<s, "x">>>>,
      mono    |-> IF k = 2 THEN <<<<s, "s1", "h">>>> ELSE <<>>,
      combo   |-> IF k = 3 THEN <<<<s, s, "s1", "h">>>> ELSE <<>>,
      targets |-> IF k = 4 THEN <<<<s, "p1">>>> ELSE <<>>] :
     s \in RawStrings, k \in 2..4}

InitNormalize ==
    /\ remote \in NormalizeRemotes
    /\ drugs = EmptyBag
    /\ side_effects = EmptyBag
    /\ drug_side_effects = EmptyBag
    /\ drug_targets = EmptyBag
    /\ pc = 0
    /\ status = "none"
    /\ last = NoCall
    /\ completed = FALSE
    /\ p2Partial = FALSE

\* the phases invoked one by one on feeds that spell a drug in every way
SpecNormalize == InitNormalize /\ [][NextAny]_vars

\* how many rows each feed holds when the drug feed, the target feed and
\* one of the side-effect feeds hold a row
JoinSplits ==
    {n \in [1..4 -> 0..MaxJoinRows] :
        /\ n[1] + n[2] + n[3] + n[4] <= MaxJoinRows
        /\ n[1] >= 1
        /\ n[2] + n[3] >= 1
        /\ n[4] >= 1}

JoinRemotes ==
    UNION {[names : [1..n[1] -> NamesRows], mono : [1..n[2] -> MonoRows],
            combo : [1..n[3] -> ComboRows], targets : [1..n[4] -> TargetsRows]]
           : n \in JoinSplits}

InitRuns ==
    /\ remote \in JoinRemotes
    /\ drugs = EmptyBag
    /\ side_effects = EmptyBag
    /\ drug_side_effects = EmptyBag
    /\ drug_targets = EmptyBag
    /\ pc = 0
    /\ status = "none"
    /\ last = NoCall
    /\ completed = FALSE
    /\ p2Partial = FALSE

\* the pipeline run any number of times on feeds that serve every table
SpecRuns == InitRuns /\ [][Next]_vars

-----------------------------------------------------------------------------
(* Properties *)

\* a step in which phase k was invoked
PhaseStep(k) == last'.phase = k /\ vars' # vars

AnyPhaseStep == \E k \in 1..4 : PhaseStep(k)

\* quote characters removed, surrounding whitespace trimmed
Normalized(s) == StrStrip(StrReplaceQuote(s))

StoredIds == {d.stitch_id : d \in BagToSet(drugs)}

\* the table holds a row
Populated(table) == BagToSet(table) # {}

\* C1: every row of drug_side_effects and of drug_targets carries a drug
\* identifier that is a stitch_id of the drugs table
C1_NoDanglingDrug ==
    /\ \A r \in BagToSet(drug_side_effects) : r.drug_id \in StoredIds
    /\ \A r \in BagToSet(drug_targets) : r.drug_id \in StoredIds

\* C2: no two rows of drugs have identifiers that are the same string once
\* normalised
C2_UniqueAfterNormalization ==
    \A d1, d2 \in BagToSet(drugs) :
        Normalized(d1.stitch_id) = Normalized(d2.stitch_id)
            => d1 = d2 /\ CopiesIn(d1, drugs) = 1

\* C3: Phase 1 invoked with drugs populated, and Phase 2 invoked with
\* side_effects populated, change no table, fetch nothing and return
C3_SkipWhenPopulated ==
    [][(\/ PhaseStep(1) /\ Populated(drugs)
        \/ PhaseStep(2) /\ Populated(side_effects))
       => /\ UNCHANGED tables
          /\ last'.outcome = "skipped"
          /\ last'.fetch = "none"]_vars

C3_Witness ==
    /\ last.phase = 2
    /\ last.outcome = "skipped"
    /\ Populated(side_effects)
    /\ Populated(drug_side_effects)

\* C4: once a pipeline run has completed without a failure, Phases 3 and 4
\* of a later run on the same feeds leave drug_side_effects and
\* drug_targets with the rows they had
C4_SecondRunSameLinks ==
    [][(completed /\ pc \in {3, 4} /\ pc' # pc /\ last'.fetch = "exact")
       => UNCHANGED <<drug_side_effects, drug_targets>>]_vars

\* the monotherapy links of the feed whose drug is in the drugs table
ExpectedMonoLinks ==
    LET Known(r) == Normalized(r[1]) \in {Normalized(id) : id \in StoredIds}
        rows == SelectSeq(remote.mono, Known)
    IN  SeqToBag([i \in DOMAIN rows |->
                    [drug_id |-> Normalized(rows[i][1]), se_code |-> rows[i][2],
                     is_combo |-> FALSE]])

\* C5: after a Phase 2 that committed its catalog without the links, a
\* pipeline run that completes without a failure leaves drug_side_effects
\* with the monotherapy links of the feed
C5_RerunRecoversMonoLinks ==
    (p2Partial /\ status = "done") => ExpectedMonoLinks \sqsubseteq drug_side_effects

\* C6: no phase lets an exception out, and no pipeline process is ended by one
C6_FailuresCaught == last.outcome # "raised" /\ status # "crashed"

UniqueCodes ==
    \A e1, e2 \in BagToSet(side_effects) :
        e1.se_code = e2.se_code => e1 = e2 /\ CopiesIn(e1, side_effects) = 1

\* C7: no code is in two rows of side_effects, and a Phase 3 adds only rows
\* whose code the table did not hold
C7_CodesNeverDuplicated ==
    /\ []UniqueCodes
    /\ [][PhaseStep(3)
          => \A e \in BagToSet(side_effects') :
                CopiesIn(e, side_effects') > CopiesIn(e, side_effects)
                    => e.se_code \notin ExistingSe]_vars

C7_Witness ==
    /\ last.phase = 3
    /\ last.outcome = "ok"
    /\ \E r \in BagToSet(drug_side_effects) :
          r.is_combo /\ CopiesIn(r, drug_side_effects) >= 2

\* C8: the pipeline calls Phase 2 only after its Phase 1 returned (having
\* inserted or skipped), calls Phases 3 and 4 in turn after that, and ends,
\* with no table changed, when its Phase 1 raises
C8_Phase1First ==
    [][/\ (pc' = 2 /\ pc # 2)
            => /\ pc = 1
               /\ last'.phase = 1
               /\ last'.outcome \in {"ok", "skipped"}
               /\ last'.outcome = "skipped" => Populated(drugs)
       /\ (pc' \in {3, 4} /\ pc' # pc) => pc = pc' - 1
       /\ (pc \in 1..4 /\ AnyPhaseStep) => last'.phase = pc
       /\ (pc = 1 /\ PhaseStep(1) /\ last'.outcome = "raised")
            => pc' = 0 /\ status' = "crashed" /\ UNCHANGED tables]_vars

C8_Witness ==
    /\ status = "crashed"
    /\ last.phase = 1
    /\ last.outcome = "raised"
    /\ last.fetch = "unreachable"

TransportErrors == {"unreachable", "non2xx", "badgz"}

\* C9: a phase whose fetch meets a transport error changes no table
C9_TransportErrorInsertsNothing ==
    [][(AnyPhaseStep /\ last'.fetch \in TransportErrors) => UNCHANGED tables]_vars

\* C10 as stated: a phase whose data set has fewer or more columns than it
\* expects changes no table
C10_WrongColumnCountInsertsNothing ==
    [][(AnyPhaseStep /\ last'.fetch \in {"short", "wide"}) => UNCHANGED tables]_vars

\* C10 as amended: a phase whose data set has fewer columns than it reads,
\* and Phase 4 on a data set with more than two columns, ends in an
\* exception and changes no table
C10_TooFewColumnsInsertsNothing ==
    [][(AnyPhaseStep /\ (\/ last'.fetch = "short"
                         \/ last'.fetch = "wide" /\ last'.phase = 4))
       => /\ UNCHANGED tables
          /\ last'.outcome \in {"caught", "raised"}]_vars

C10_Witness ==
    /\ last.phase = 4
    /\ last.fetch = "wide"
    /\ last.outcome = "raised"
    /\ Populated(drugs)

\* the identifier, once normalised, is that of a stored drug
KnownDrug(s) == Normalized(s) \in {Normalized(id) : id \in StoredIds}

\* the (drug, code) pairs of the combination feed's rows with both drugs known
ExpectedComboPairs ==
    UNION {{<<Normalized(remote.combo[i][1]), remote.combo[i][3]>>,
            <<Normalized(remote.combo[i][2]), remote.combo[i][3]>>} :
           i \in {j \in DOMAIN remote.combo :
                    /\ KnownDrug(remote.combo[j][1])
                    /\ KnownDrug(remote.combo[j][2])}}

MonoCodes == {remote.mono[i][2] : i \in DOMAIN remote.mono}

\* C12: a Phase 2 that runs to its end on an empty side_effects table leaves
\* in it one row for each code of the monotherapy feed, with a name the feed
\* gives that code, and adds to drug_side_effects, as non-combination links,
\* the feed rows whose drug is known and no other
C12_Phase2LoadsCatalogAndKnownLinks ==
    [][(PhaseStep(2) /\ last'.outcome = "ok" /\ ~Populated(side_effects))
       => /\ {e.se_code : e \in BagToSet(side_effects')} = MonoCodes
          /\ \A e \in BagToSet(side_effects') :
                /\ CopiesIn(e, side_effects') = 1
                /\ \A f \in BagToSet(side_effects') : f.se_code = e.se_code => f = e
                /\ \E i \in DOMAIN remote.mono :
                      /\ remote.mono[i][2] = e.se_code
                      /\ remote.mono[i][3] = e.se_name
          /\ drug_side_effects' = drug_side_effects (+) ExpectedMonoLinks]_vars

C12_Witness ==
    /\ last.phase = 2
    /\ last.outcome = "ok"
    /\ Populated(side_effects)
    /\ \E r \in BagToSet(drug_side_effects) : ~r.is_combo

\* every raw identifier the feeds and the drugs table hold
RawIdentifiers ==
    StoredIds
    \cup {remote.names[i][1] : i \in DOMAIN remote.names}
    \cup {remote.mono[i][1] : i \in DOMAIN remote.mono}
    \cup {remote.combo[i][1] : i \in DOMAIN remote.combo}
    \cup {remote.combo[i][2] : i \in DOMAIN remote.combo}
    \cup {remote.targets[i][1] : i \in DOMAIN remote.targets}

\* the drug identifiers the phases have stored in the link tables
LinkIds ==
    {r.drug_id : r \in BagToSet(drug_side_effects)}
    \cup {r.drug_id : r \in BagToSet(drug_targets)}

\* normalising twice is normalising once, the three normalisations of the
\* phases agree on every raw identifier, and every identifier a phase has
\* stored in a link is a fixed point that each phase finds among the
\* stored drugs
NormalizationAgrees ==
    /\ \A s \in RawIdentifiers :
          /\ NormalizeFresh(NormalizeFresh(s)) = NormalizeFresh(s)
          /\ NormalizeStoredList(NormalizeStoredList(s)) = NormalizeStoredList(s)
          /\ NormalizeStoredSeries(NormalizeStoredSeries(s)) = NormalizeStoredSeries(s)
          /\ NormalizeStoredList(s) = NormalizeFresh(s)
          /\ NormalizeStoredSeries(s) = NormalizeFresh(s)
          /\ \A i \in DOMAIN NormalizeFresh(s) : NormalizeFresh(s)[i] # Quote
          /\ NormalizeFresh(s) # <<>>
                => /\ Head(NormalizeFresh(s)) # Space
                   /\ NormalizeFresh(s)[Len(NormalizeFresh(s))] # Space
    /\ \A d \in LinkIds :
          /\ NormalizeFresh(d) = d
          /\ d \in ExistingIds
          /\ d \in ExistingDrugs

\* the normalised identifiers of the rows phase k fetches whose drugs are
\* spelled as a stored drug is
SameSpelling(k) ==
    CASE k = 2 -> {NormalizeFresh(remote.mono[i][1]) :
                     i \in {j \in DOMAIN remote.mono : remote.mono[j][1] \in StoredIds}}
      [] k = 3 -> UNION {{NormalizeFresh(remote.combo[i][1]),
                          NormalizeFresh(remote.combo[i][2])} :
                         i \in {j \in DOMAIN remote.combo :
                                  /\ remote.combo[j][1] \in StoredIds
                                  /\ remote.combo[j][2] \in StoredIds}}
      [] k = 4 -> {NormalizeFresh(remote.targets[i][1]) :
                     i \in {j \in DOMAIN remote.targets :
                              remote.targets[j][1] \in StoredIds}}
      [] OTHER -> {}

\* the link rows of drug d that the step has added
AddedLinks(d) ==
    {r \in BagToSet(drug_side_effects') :
        r.drug_id = d /\ CopiesIn(r, drug_side_effects') > CopiesIn(r, drug_side_effects)}
    \cup {r \in BagToSet(drug_targets') :
            r.drug_id = d /\ CopiesIn(r, drug_targets') > CopiesIn(r, drug_targets)}

\* C13: identifier normalisation is idempotent, the normalisation of a
\* fetched identifier and those of a stored identifier give the same string
\* for the same raw input, and so a phase that runs to its end finds every
\* fetched identifier that is spelled as a stored one and links it
C13_NormalizationIdempotentAndConsistent ==
    /\ []NormalizationAgrees
    /\ [][\A k \in 2..4 :
            (PhaseStep(k) /\ last'.outcome = "ok")
                => \A d \in SameSpelling(k) : AddedLinks(d) # {}]_vars

C13_Witness ==
    /\ last.phase = 4
    /\ last.outcome = "ok"
    /\ \E s \in StoredIds :
          /\ StrReplaceQuote(s) # s
          /\ StrStrip(s) # s
          /\ \E r \in BagToSet(drug_targets) : r.drug_id = NormalizeFresh(s)

\* the archives with no regular file outside the metadata files
NoValidMember == {"empty", "nomember"}

\* what the fetcher gives each phase for such an archive
FetchedFromNoValidMember ==
    {download_and_extract_gz(resp, "html", remote.mono, 3) : resp \in NoValidMember}
    \cup {download_and_extract_gz(resp, "html", remote.combo, 4) : resp \in NoValidMember}
    \cup {download_and_extract_gz(resp, "html", remote.targets, 2) : resp \in NoValidMember}

\* the fetcher gives the absent result for every such archive
AbsentForNoValidMember == \A df \in FetchedFromNoValidMember : df.kind = "none"

\* C14: for an archive with no member, or none that is a regular file
\* outside the metadata files, the fetcher returns the absent result and
\* does not raise: Phase 2, whose fetch is outside its try block, reaches
\* its except clause with no table changed
C14_NoValidMemberGivesNone ==
    /\ []AbsentForNoValidMember
    /\ [][(PhaseStep(2) /\ last'.fetch \in NoValidMember)
          => /\ last'.outcome = "caught"
             /\ UNCHANGED tables]_vars

C14_Witness ==
    /\ last.phase = 2
    /\ last.fetch = "nomember"
    /\ last.outcome = "caught"
    /\ Populated(drugs)

\* C15: in every state the phases can reach, in any order and with any of
\* them ending in an exception, the code of every drug_side_effects row is
\* the code of a side_effects row
C15_LinkCodesInCatalog ==
    \A r \in BagToSet(drug_side_effects) : r.se_code \in ExistingSe

C15_Witness ==
    /\ last.phase = 3
    /\ last.outcome = "raised"
    /\ last.fetch = "exact"
    /\ Populated(drug_side_effects)
    /\ Populated(side_effects)

\* C16: a phase invocation leaves every row of every table in place, as
\* often as it was there; Phases 2, 3 and 4 leave drugs as it was
C16_AppendOnly ==
    [][AnyPhaseStep
       => /\ drugs \sqsubseteq drugs'
          /\ side_effects \sqsubseteq side_effects'
          /\ drug_side_effects \sqsubseteq drug_side_effects'
          /\ drug_targets \sqsubseteq drug_targets'
          /\ last'.phase \in 2..4 => drugs' = drugs]_vars

C16_Witness ==
    /\ last.phase = 3
    /\ last.outcome = "ok"
    /\ Populated(drugs)
    /\ Populated(side_effects)
    /\ \E r \in BagToSet(drug_side_effects) : ~r.is_combo

\* the drugs with a target p and a side effect named n: the distinct drugs
\* of drug_targets joined with drug_side_effects and side_effects
DrugsOf(p, n) ==
    {t.drug_id : t \in {u \in BagToSet(drug_targets) :
        /\ u.protein_id = p
        /\ \E l \in BagToSet(drug_side_effects), e \in BagToSet(side_effects) :
              /\ l.drug_id = u.drug_id
              /\ l.se_code = e.se_code
              /\ e.se_name = n}}

\* the count of distinct drugs per (protein, side-effect name)
Aggregation ==
    [k \in ProteinIds \X (MonoSeNames \cup ComboSeNames) |->
        Cardinality(DrugsOf(k[1], k[2]))]

\* the distinct (drug, code) and (drug, target) pairs of the link tables
LinkPairs ==
    <<{<<r.drug_id, r.se_code>> : r \in BagToSet(drug_side_effects)},
      {<<r.drug_id, r.protein_id>> : r \in BagToSet(drug_targets)}>>

====
